---- MODULE Spec2Model ----
(***************************************************************************)
(* Model of the post feature of the Flow social application: the post      *)
(* route table (src/server/routes/post.routes.js), the post controller     *)
(* (src/unnamed/part_000), the post API client (src/unnamed/part_002) and   *)
(* the views (Newsfeed.js, Post.js, Comments.js, Profile.js).               *)
(*                                                                         *)
(* Several specifications share the module.  Spec is the server: one step   *)
(* is one turn of the event loop, a request carried through its route's     *)
(* middleware chain, a feed or by-user handler resumed with the answer to    *)
(* its query, or a create callback resumed after form.parse, the upload or   *)
(* the save.  SpecLike is the like/unlike round trip: one step is *)
(* one call of the API client answered by the server.  SpecClient is the    *)
(* browser: one step is one event of a view (mount, route change, unmount,  *)
(* a fetch settling).  SpecFeed is the Newsfeed with NewPost as the post    *)
(* controller serves it, SpecRemove the Newsfeed with removePost called on  *)
(* any post, SpecPost one Post view with its like button and comment field  *)
(* (its like calls answered by the                                          *)
(* server), SpecProfile one Profile view with its follow button.  A handler *)
(* that awaits an answer keeps the props and state of the render it was     *)
(* created in.  A call of a state setter is applied to the view's state     *)
(* whenever the code makes it, mounted or not.                              *)
(***************************************************************************)
EXTENDS Integers, Sequences, FiniteSets, TLC

\* ------------------------------------------------------------------ bounds
NumUsers == 2        \* stored users are 1..NumUsers
MaxPosts == 2        \* post ids are 1..MaxPosts: the store never holds more
MaxFetches == 2      \* reads one Profile view starts (its mount, then route changes)
MaxCalls == 2        \* API calls of view handlers in flight at once
MaxPending == 2      \* requests the server is working on at once
MaxQueries == 1      \* of these, feed and by-user requests awaiting their query

Users == 1..NumUsers
NoUser == 0          \* an absent user reference / an id no user has
NoPost == 0          \* an id no post has
NoCred == 0          \* a request without a valid session credential
NoPhoto == 0         \* photo absent
UploadedUrl == 1     \* the URL the media store hands back

Names == <<"Ana", "Ben", "Cat", "Dan", "Eve", "Flo">>
UserName(u) == IF u \in 1..Len(Names) THEN Names[u] ELSE ""

VARIABLES
    following,   \* stored User.following of each user: a sequence of user ids
    posts,       \* the Post collection, in storage (insertion) order
    before,      \* the Post collection as the last step's request found it
    now,         \* the server clock
    nextId,      \* the id the next post document gets
    pending,     \* the requests whose handler has returned and awaits an answer
    uploadCalls, \* media-store uploads made so far for the request of the last step
    req,         \* the request the last step of the server worked on
    res,         \* the response that request has been given (NoRes: none so far)
    stage,       \* where the last step left that request
    invoked,     \* the handlers that ran for it, in order
    called,      \* the API client function that sent it ("none": another client)
    jwt,         \* auth.isAuthenticated(): the user signed in to the browser
    page,        \* the page the views are shown on: its globals and its renderer
    nf,          \* the Newsfeed view
    pf,          \* the Profile view
    pv,          \* a Post view
    calls,       \* the API calls a view handler has made and not yet handled the answer of
    ev           \* the last handler of a view that ran, and what it did

serverVars == <<following, posts, before, now, nextId, pending, uploadCalls, req, res, stage,
                invoked, called>>
clientVars == <<jwt, page, nf, pf, pv, calls, ev>>
vars == <<following, posts, before, now, nextId, pending, uploadCalls, req, res, stage,
          invoked, called, jwt, page, nf, pf, pv, calls, ev>>

\* ------------------------------------------------------- sequence helpers
Range(s) == {s[i] : i \in 1..Len(s)}
Count(x, s) == Cardinality({i \in 1..Len(s) : s[i] = x})
Front(s) == SubSeq(s, 1, Len(s) - 1)
Without(s, i) == SubSeq(s, 1, i - 1) \o SubSeq(s, i + 1, Len(s))

\* --------------------------------------------------------------- documents
\* A stored post keeps its author references as bare user ids.
NewPostDoc(id, text, by, at) ==
    [_id |-> id, text |-> text, postedBy |-> by, photo |-> NoPhoto,
     created |-> at, likes |-> <<>>, comments |-> <<>>]

\* A reference as it is serialised: a bare identifier, or (after populate)
\* the referenced user's record cut down to the selected fields.
BareRef(u) == [populated |-> FALSE, _id |-> u, name |-> ""]
PopulatedRef(u) == [populated |-> TRUE, _id |-> u, name |-> UserName(u)]

\* ref._id as a view reads it: the id of a populated record; a bare id is a
\* string, and a string has no _id (the read gives undefined).
IdOf(ref) == IF ref.populated THEN ref._id ELSE NoUser

\* The document as the query returns it before any populate.
ToView(p) ==
    [_id |-> p._id, text |-> p.text, postedBy |-> BareRef(p.postedBy),
     photo |-> p.photo, created |-> p.created, likes |-> p.likes,
     comments |-> [i \in 1..Len(p.comments) |->
                     [text |-> p.comments[i].text,
                      postedBy |-> BareRef(p.comments[i].postedBy)]]]

\* .populate('comments.postedBy', '_id name')
PopulateCommentAuthors(v) ==
    [v EXCEPT !.comments = [i \in 1..Len(v.comments) |->
        [v.comments[i] EXCEPT !.postedBy = PopulatedRef(v.comments[i].postedBy._id)]]]

\* .populate('postedBy', '_id name')
PopulateAuthor(v) == [v EXCEPT !.postedBy = PopulatedRef(v.postedBy._id)]

\* .sort('-created'): newest first, equal timestamps keep storage order.
RECURSIVE InsertByCreated(_, _)
InsertByCreated(v, s) ==
    IF s = <<>> THEN <<v>>
    ELSE IF Head(s).created >= v.created
         THEN <<Head(s)>> \o InsertByCreated(v, Tail(s))
         ELSE <<v>> \o s

RECURSIVE SortCreatedDesc(_)
SortCreatedDesc(s) ==
    IF s = <<>> THEN <<>>
    ELSE InsertByCreated(s[Len(s)], SortCreatedDesc(Front(s)))

PostIds(store) == {store[i]._id : i \in 1..Len(store)}
PostById(store, id) == CHOOSE p \in Range(store) : p._id = id

\* ---------------------------------------------------------------- responses
NoRes == [status |-> 0, kind |-> "none", error |-> "", docs |-> <<>>]
JsonList(vs) == [status |-> 200, kind |-> "list", error |-> "", docs |-> vs]
JsonDoc(v) == [status |-> 200, kind |-> "doc", error |-> "", docs |-> <<v>>]
JsonEmpty == [status |-> 200, kind |-> "empty", error |-> "", docs |-> <<>>]
JsonError(st, msg) == [status |-> st, kind |-> "error", error |-> msg, docs |-> <<>>]

\* ------------------------------------------------------------------ requests
\* One HTTP request.  route names a row of the route table; id is the value of
\* its :userId / :postId segment; cred is the user the bearer token was issued
\* to (NoCred: none or invalid).  The remaining fields are the multipart body
\* of a create request and the JSON body of a like/unlike request.
NoReq ==
    [route |-> "none", id |-> 0, cred |-> NoCred, parseErr |-> FALSE, text |-> "",
     fieldPostedBy |-> NoUser, hasFile |-> FALSE, uploadOk |-> FALSE,
     queryOk |-> FALSE, path |-> "", bodyPost |-> NoPost, bodyUser |-> NoUser]

\* The per-request context the handlers pass along (Express req/res plus the
\* collections they reach: the stored posts and each stored user's following).
\* awaits names what the handler that ran last is waiting for when it returns
\* without having answered ("none": nothing); doc is the Post document a
\* create request has constructed; found is what the query a handler sent
\* has read.
NewCtx(store) ==
    [posts |-> store, following |-> following,
     profile |-> NoUser, profileFollowing |-> <<>>,
     post |-> NoPost, auth |-> NoUser, res |-> NoRes, ended |-> FALSE,
     invoked |-> <<>>, uploadCalls |-> 0,
     awaits |-> "none", doc |-> NewPostDoc(NoPost, "", NoUser, 0), found |-> <<>>]

Respond(ctx, r) == [ctx EXCEPT !.res = r, !.ended = TRUE]

\* ------------------------------------------------- middleware (not in src/)
\* userByID: resolves :userId to a User and attaches it as req.profile.
userByID(ctx, r) ==
    IF r.id \in Users
    THEN [ctx EXCEPT !.profile = r.id, !.profileFollowing = ctx.following[r.id]]
    ELSE Respond(ctx, JsonError(404, "User not found"))

\* postByID: resolves :postId to a Post and attaches it as req.post.
postByID(ctx, r) ==
    IF r.id \in PostIds(ctx.posts)
    THEN [ctx EXCEPT !.post = r.id]
    ELSE Respond(ctx, JsonError(404, "Post not found"))

\* requireSignin: 401 unless the request carries a valid session credential.
requireSignin(ctx, r) ==
    IF r.cred = NoCred
    THEN Respond(ctx, JsonError(401, "Unauthorized"))
    ELSE [ctx EXCEPT !.auth = r.cred]

\* isPoster: 403 unless the authenticated user is the post's author.
isPoster(ctx, r) ==
    IF /\ ctx.post \in PostIds(ctx.posts)
       /\ ctx.auth # NoUser
       /\ PostById(ctx.posts, ctx.post).postedBy = ctx.auth
    THEN ctx
    ELSE Respond(ctx, JsonError(403, "User is not authorized"))

\* remove: deletes req.post and answers with the deleted document.
remove(ctx, r) ==
    IF ctx.post \in PostIds(ctx.posts)
    THEN LET gone == PostById(ctx.posts, ctx.post)
         IN  Respond([ctx EXCEPT !.posts = SelectSeq(ctx.posts, LAMBDA p : p._id # ctx.post)],
                     JsonDoc(ToView(gone)))
    ELSE Respond(ctx, JsonError(400, "remove failed"))

\* photo: streams the post's photo; NotFound when the post has none.
photo(ctx, r) ==
    IF ctx.post \in PostIds(ctx.posts) /\ PostById(ctx.posts, ctx.post).photo # NoPhoto
    THEN Respond(ctx, [status |-> 200, kind |-> "photo", error |-> "", docs |-> <<>>])
    ELSE Respond(ctx, JsonError(404, "Photo not found"))

\* ------------------------------------------- post controller (part_000)
\* let following = req.profile.following; following.push(req.profile._id)
FeedFollowingNoSelf(profileFollowing, profileId) == profileFollowing
FeedFollowing(profileFollowing, profileId) == Append(profileFollowing, profileId)

\* The populate calls listNewsFeed chains onto its query.
FeedPopulate(v) == PopulateCommentAuthors(v)

\* .sort('-created') of the feed query.
FeedSort(vs) == SortCreatedDesc(vs)

\* listNewsFeed up to its await: the push, then the query is sent
\*   await Post.find({postedBy: {$in: req.profile.following}}).populate(..).sort(..).exec()
\* and the handler returns.  The query reads the collection as it is when it
\* is sent; its answer comes in a later turn of the event loop.
listNewsFeedSavesProfile(ctx, r) ==
    LET pushed == FeedFollowing(ctx.profileFollowing, ctx.profile)
        found == SelectSeq(ctx.posts, LAMBDA p : p.postedBy \in Range(pushed))
        views == [i \in 1..Len(found) |-> FeedPopulate(ToView(found[i]))]
    IN  [ctx EXCEPT !.profileFollowing = pushed, !.following[ctx.profile] = pushed,
                    !.found = FeedSort(views), !.awaits = "query"]
\* req.profile is the document userByID loaded for this request; the push
\* changes that document in memory and nothing saves it.
listNewsFeed(ctx, r) ==
    LET pushed == FeedFollowing(ctx.profileFollowing, ctx.profile)
        found == SelectSeq(ctx.posts, LAMBDA p : p.postedBy \in Range(pushed))
        views == [i \in 1..Len(found) |-> FeedPopulate(ToView(found[i]))]
    IN  [ctx EXCEPT !.profileFollowing = pushed,
                    !.found = FeedSort(views), !.awaits = "query"]

\* The awaited feed query settles.  It resolves: res.json(posts).  It rejects:
\*   catch(err) { return res.status(400).json({error: errorHandler.getErrorMessage(err)}) }
\* (the helper is not in src/: it gives the error's message text).
listNewsFeedFound(ctx, r) ==
    IF r.queryOk
    THEN Respond([ctx EXCEPT !.awaits = "none"], JsonList(ctx.found))
    ELSE Respond([ctx EXCEPT !.awaits = "none"], JsonError(400, "query failed"))

\* The value listByUser hands to res.json.
ByUserBody(views) == JsonEmpty

\* listByUser up to its await: the query is sent
\*   await Post.find({postedBy: req.profile._id}).populate(..).populate(..).sort(..).exec()
\* and the handler returns.
listByUser(ctx, r) ==
    LET found == SelectSeq(ctx.posts, LAMBDA p : p.postedBy = ctx.profile)
        views == [i \in 1..Len(found) |->
                    PopulateAuthor(PopulateCommentAuthors(ToView(found[i])))]
    IN  [ctx EXCEPT !.found = SortCreatedDesc(views), !.awaits = "query"]

\* The awaited by-user query settles.  It resolves: res.json().  It rejects:
\*   catch(err) { return res.status(400).json({error: errorHandler.getErrorMessage(err)}) }
listByUserFound(ctx, r) ==
    IF r.queryOk
    THEN Respond([ctx EXCEPT !.awaits = "none"], ByUserBody(ctx.found))
    ELSE Respond([ctx EXCEPT !.awaits = "none"], JsonError(400, "query failed"))

\* Post model validation on save (schema not in src/): text and postedBy are
\* required.
Valid(post) == post.text # "" /\ post.postedBy # NoUser

\* try { result = await post.save(); res.json(result) } catch -> 400
SaveAndRespond(ctx, post) ==
    IF Valid(post)
    THEN Respond([ctx EXCEPT !.posts = Append(ctx.posts, post)], JsonDoc(ToView(post)))
    ELSE Respond(ctx, JsonError(400, "validation failed"))

\* cloudinary.uploader.upload(path, options, callback) of the media store
\* (its configuration is not in src/): on success it resolves its promise and
\* hands the callback (undefined, result), result.url being the public URL; on
\* failure it rejects the promise and hands the callback (error, undefined).
upload(ok) == [rejected |-> ~ok, url |-> IF ok THEN UploadedUrl ELSE NoPhoto]

\* create: let form = new formidable.IncomingForm(); form.parse(req, callback).
\* The handler returns once the parse is started; the callback runs in a later
\* turn of the event loop.
create(ctx, r) == [ctx EXCEPT !.awaits = "parse"]

\* The form.parse callback up to its first await:
\*   if (err) return res.status(400).json({error: 'Image could not be uploaded'})
\*   let post = new Post(fields); post.createdBy = req.profile;
\*   if (files.photo) { await cloudinary.uploader.upload(...) }
\*   try { let result = await post.save(); ... }
\* new Post gives the document its _id and its created timestamp.  createdBy
\* is no path of the Post schema, so the assignment leaves the document's
\* postedBy as the form fields gave it (absent when they had none).
createParsedSkipCheck(ctx, r, id, at) ==
    LET post == NewPostDoc(id, r.text, r.fieldPostedBy, at)
    IN  IF r.hasFile
        THEN [ctx EXCEPT !.doc = post, !.uploadCalls = @ + 1, !.awaits = "upload"]
        ELSE [ctx EXCEPT !.doc = post, !.awaits = "save"]
createParsed(ctx, r, id, at) ==
    LET post == NewPostDoc(id, r.text, r.fieldPostedBy, at)
    IN  IF r.parseErr
        THEN Respond([ctx EXCEPT !.awaits = "none"],
                     JsonError(400, "Image could not be uploaded"))
        ELSE IF r.hasFile
             THEN [ctx EXCEPT !.doc = post, !.uploadCalls = @ + 1, !.awaits = "upload"]
             ELSE [ctx EXCEPT !.doc = post, !.awaits = "save"]

\* The awaited upload settles.
\*   function(err, result) { post.photo = result.url }
\* The uploader calls the callback and settles its promise in the same turn.
\* When the upload fails the awaited promise rejects (and the callback reads
\* result.url of an absent result): the rest of the form.parse callback never
\* runs, so the document is not saved and the request gets no response.
createUploadedNoPhoto(ctx, r) ==
    LET up == upload(r.uploadOk)
    IN  IF up.rejected
        THEN [ctx EXCEPT !.awaits = "never"]
        ELSE [ctx EXCEPT !.awaits = "save"]
createUploaded(ctx, r) ==
    LET up == upload(r.uploadOk)
    IN  IF up.rejected
        THEN [ctx EXCEPT !.awaits = "never"]
        ELSE [ctx EXCEPT !.doc.photo = up.url, !.awaits = "save"]

\* The awaited post.save() settles:
\*   try { let result = await post.save(); res.json(result) } catch -> 400
createSaved(ctx, r) == SaveAndRespond([ctx EXCEPT !.awaits = "none"], ctx.doc)

\* --------------------------------- like / unlike on the server (not in src/)
\* like: adds body.userId to the likes of post body.postId, each user at most
\* once; answers with the updated post.
likeCtrl(ctx, r) ==
    IF r.bodyPost \in PostIds(ctx.posts)
    THEN LET old == PostById(ctx.posts, r.bodyPost)
             new == IF r.bodyUser \in Range(old.likes) THEN old
                    ELSE [old EXCEPT !.likes = Append(@, r.bodyUser)]
         IN  Respond([ctx EXCEPT !.posts = [i \in 1..Len(ctx.posts) |->
                          IF ctx.posts[i]._id = r.bodyPost THEN new ELSE ctx.posts[i]]],
                     JsonDoc(ToView(new)))
    ELSE Respond(ctx, JsonError(400, "like failed"))

\* unlike: removes body.userId from the likes of post body.postId.
unlikeCtrl(ctx, r) ==
    IF r.bodyPost \in PostIds(ctx.posts)
    THEN LET old == PostById(ctx.posts, r.bodyPost)
             new == [old EXCEPT !.likes = SelectSeq(@, LAMBDA u : u # r.bodyUser)]
         IN  Respond([ctx EXCEPT !.posts = [i \in 1..Len(ctx.posts) |->
                          IF ctx.posts[i]._id = r.bodyPost THEN new ELSE ctx.posts[i]]],
                     JsonDoc(ToView(new)))
    ELSE Respond(ctx, JsonError(400, "unlike failed"))

\* ---------------------------------------------- route table (post.routes.js)
PostRoutes == {"feed", "by", "new", "photo", "delete"}

\* The middleware chain each route binds, in the order it is written.
RouteChainDeleteNoIsPoster == <<"requireSignin", "remove">>
RouteChainDelete == <<"requireSignin", "isPoster", "remove">>

RouteChainCreateOpen(route) ==
    CASE route = "feed"   -> <<"requireSignin", "listNewsFeed">>
      [] route = "by"     -> <<"requireSignin", "listByUser">>
      [] route = "new"    -> <<"create">>
      [] route = "photo"  -> <<"photo">>
      [] route = "delete" -> RouteChainDelete
      [] OTHER            -> <<>>
RouteChain(route) ==
    CASE route = "feed"   -> <<"requireSignin", "listNewsFeed">>
      [] route = "by"     -> <<"requireSignin", "listByUser">>
      [] route = "new"    -> <<"requireSignin", "create">>
      [] route = "photo"  -> <<"photo">>
      [] route = "delete" -> RouteChainDelete
      [] OTHER            -> <<>>

\* The two PUT routes of the API table that the like/unlike client calls
\* (not in post.routes.js): signed-in, no path parameter.
PutRouteChain(route) ==
    CASE route = "like"   -> <<"requireSignin", "like">>
      [] route = "unlike" -> <<"requireSignin", "unlike">>
      [] OTHER            -> <<>>

\* The path parameter of each route.
RouteParam(route) ==
    CASE route \in {"feed", "by", "new"} -> "userId"
      [] route \in {"photo", "delete"}   -> "postId"
      [] OTHER                           -> "none"

\* router.param('userId', userCtrl.userByID); router.param('postId', postCtrl.postByID)
ParamHandlerUserOnly(param) ==
    CASE param = "userId" -> <<"userByID">>
      [] OTHER            -> <<>>
ParamHandler(param) ==
    CASE param = "userId" -> <<"userByID">>
      [] param = "postId" -> <<"postByID">>
      [] OTHER            -> <<>>

\* The terminal controller operation of each route.
Controller(route) == RouteChain(route)[Len(RouteChain(route))]

Handle(name, ctx, r) ==
    CASE name = "userByID"      -> userByID(ctx, r)
      [] name = "postByID"      -> postByID(ctx, r)
      [] name = "requireSignin" -> requireSignin(ctx, r)
      [] name = "isPoster"      -> isPoster(ctx, r)
      [] name = "remove"        -> remove(ctx, r)
      [] name = "photo"         -> photo(ctx, r)
      [] name = "listNewsFeed"  -> listNewsFeed(ctx, r)
      [] name = "listByUser"    -> listByUser(ctx, r)
      [] name = "create"        -> create(ctx, r)
      [] name = "like"          -> likeCtrl(ctx, r)
      [] name = "unlike"        -> unlikeCtrl(ctx, r)

\* Express runs the handlers in order; each runs only if every earlier one
\* called next() instead of ending the response.
RECURSIVE RunChain(_, _, _)
RunChain(chain, ctx, r) ==
    IF chain = <<>> \/ ctx.ended THEN ctx
    ELSE RunChain(Tail(chain),
                  Handle(Head(chain), [ctx EXCEPT !.invoked = Append(@, Head(chain))], r),
                  r)

\* A request without a matching route gets the default 404 page.
Chain(route) == IF route \in PostRoutes THEN RouteChain(route) ELSE PutRouteChain(route)

Dispatch(store, r) ==
    IF Chain(r.route) = <<>>
    THEN Respond(NewCtx(store), [status |-> 404, kind |-> "html", error |-> "", docs |-> <<>>])
    ELSE RunChain(ParamHandler(RouteParam(r.route)) \o Chain(r.route), NewCtx(store), r)

\* ------------------------------------------------ post API client (part_002)
\* fetch resolves a URL that does not start with "/" against the directory of
\* the page it is called from: the home page, or a profile page /user/:userId.
PageDirs == {"/", "/user/"}
Resolve(pageDir, url) == pageDir \o url

\* The server's (method, path) lookup for the two PUT routes of the API table.
RouteOfPath(path) ==
    CASE path = "/api/posts/like/"   -> "like"
      [] path = "/api/posts/unlike/" -> "unlike"
      [] OTHER                       -> "unrouted"

\* like(params, credentials, postId): the PUT request it sends.
like(params, credentials, postId, pageDir) ==
    LET path == Resolve(pageDir, "api/posts/like/")
    IN  [NoReq EXCEPT !.route = RouteOfPath(path), !.path = path, !.cred = credentials.t,
                      !.bodyPost = postId, !.bodyUser = params.userId]

\* unlike(params, credentials, postId): the PUT request it sends.
unlikeSendsLike(params, credentials, postId, pageDir) ==
    like(params, credentials, postId, pageDir)
unlike(params, credentials, postId, pageDir) ==
    LET path == Resolve(pageDir, "api/posts/unlike/")
    IN  [NoReq EXCEPT !.route = RouteOfPath(path), !.path = path, !.cred = credentials.t,
                      !.bodyPost = postId, !.bodyUser = params.userId]

\* ------------------------------------------------------------- initial states
Comment1 == [text |-> "nice", postedBy |-> 1]

\* Stores of fewer than MaxPosts posts with ids 1, 2, ...; the n-th was created
\* at time n (the clock assigns creation times, so they follow storage order);
\* only the first post may carry a comment.
RECURSIVE StoresOfLen(_)
StoresOfLen(n) ==
    IF n = 0 THEN {<<>>}
    ELSE {Append(s, [NewPostDoc(n, "hi", by, n) EXCEPT !.comments = cs]) :
            s \in StoresOfLen(n - 1), by \in Users,
            cs \in (IF n = 1 THEN {<<>>, <<Comment1>>} ELSE {<<>>})}

InitStores == UNION {StoresOfLen(n) : n \in 0..(MaxPosts - 1)}

LastCreated(s) == IF s = <<>> THEN 1 ELSE s[Len(s)].created

\* Who follows whom: each user the next one, or everyone everyone (the
\* server does not keep a user from following itself).
FollowNext == [u \in Users |-> IF u < NumUsers THEN <<u + 1>> ELSE <<>>]
FollowAll == [u \in Users |-> [i \in 1..NumUsers |-> i]]
FollowConfigs == {FollowNext, FollowAll}

\* ----------------------------------------------------------------- the views
\* A fetch in flight: "pending" until it settles ("settled"); "aborted" once
\* the signal it was given has been aborted, until its promise is rejected
\* ("rejected").
NoFetch == [state |-> "none", signal |-> FALSE, userId |-> NoUser]

\* What a settled fetch hands to the view: the parsed JSON body, or undefined
\* when the API function's catch swallowed a failure.
Undefined == [kind |-> "undefined", docs |-> <<>>, followers |-> <<>>, id |-> NoUser,
              likes |-> <<>>]
ErrorBody == [Undefined EXCEPT !.kind = "error"]
ListBody(ids) == [Undefined EXCEPT !.kind = "list", !.docs = ids]
UserBody(u, fs) == [Undefined EXCEPT !.kind = "user", !.id = u, !.followers = fs]
PostBody(id, likes) == [Undefined EXCEPT !.kind = "post", !.id = id, !.likes = likes]

\* An identifier a module reads without declaring or importing it is looked
\* up among the page's globals: the read raises ReferenceError when the page
\* has none of that name.
NoGlobal == [defined |-> FALSE, value |-> <<>>]
Global(v) == [defined |-> TRUE, value |-> v]

\* A page: the globals it has under the names Post.js and Comments.js read
\* without declaring them (likes, updateComments, handleChange,
\* deleteComment), and whether its renderer takes a plain object as a child
\* of an element (React raises "Objects are not valid as a React child").
PageOf(likes, updateComments, handleChange, deleteComment, objectChildren) ==
    [likes |-> likes, updateComments |-> updateComments, handleChange |-> handleChange,
     deleteComment |-> deleteComment, objectChildren |-> objectChildren]

\* The page the application's own bundle makes: none of the globals, React.
PlainPage == PageOf(NoGlobal, FALSE, FALSE, FALSE, FALSE)

Pages ==
    {PlainPage,
     PageOf(Global(<<>>), FALSE, FALSE, FALSE, TRUE),
     PageOf(Global(<<>>), TRUE, FALSE, FALSE, TRUE),
     PageOf(Global(<<>>), TRUE, TRUE, FALSE, TRUE),
     PageOf(Global(<<>>), TRUE, TRUE, TRUE, FALSE),
     PageOf(Global(<<>>), TRUE, TRUE, TRUE, TRUE),
     PageOf(Global(<<1>>), TRUE, TRUE, TRUE, TRUE)}

\* The first render of a Post with the given comments raises on the page:
\*   Post.js:62      likes.indexOf(...)              (useState initialiser)
\*   Post.js:172     updateComments={updateComments}
\*   Post.js:110     {{/*...*/}}, an empty object, as a child of Card
\*   Comments.js:112 onChange={handleChange}
\*   Comments.js:93  deleteComment(comment), for a comment of the signed-in user
PostRenderRaises(pg, comments, user) ==
    \/ ~pg.likes.defined
    \/ ~pg.updateComments
    \/ ~pg.objectChildren
    \/ ~pg.handleChange
    \/ /\ ~pg.deleteComment
       /\ \E i \in 1..Len(comments) : IdOf(comments[i].postedBy) = user

\* Newsfeed: useState([]) and no fetch before the effect has run.  populated
\* holds the posts of the list whose postedBy is a populated record (the
\* others carry the author's bare id).
NfInit == [phase |-> "initial", posts |-> <<>>, populated |-> {}, fetch |-> NoFetch]

\* Profile: useState({user: {following: [], followers: []},
\*                    redirectToSignin: false, following: false})
PfValuesInit == [user |-> NoUser, followers |-> <<>>,
                 redirectToSignin |-> FALSE, following |-> FALSE, error |-> ""]
PfInit == [phase |-> "initial", userId |-> NoUser, values |-> PfValuesInit,
           fetches |-> <<>>]

\* Post: nothing rendered yet.  props is the post the view is given, dir the
\* page it is shown on, values its useState; lastLikes is the likes array the
\* view received last (with its props, then with each answer it accepted).
PvValuesInit == [like |-> FALSE, likes |-> 0, comments |-> <<>>]
PvInit == [phase |-> "initial", props |-> ToView(NewPostDoc(NoPost, "", NoUser, 0)), dir |-> "/",
           values |-> PvValuesInit, lastLikes |-> <<>>]

\* What the last handler did: the data its callback was given, whether the
\* callback raised, the post it was about (arg), the posts list on screen
\* (shown) and the view's values (was) when it ran, the posts list (closure)
\* and values (captured) of the render it was created in, whether it called
\* props.onRemove, the key event it was given, the fetches it issued.
NoEvent == [handler |-> "none", data |-> Undefined, raised |-> FALSE, arg |-> NoPost,
            shown |-> <<>>, closure |-> <<>>, was |-> PvValuesInit,
            captured |-> PvValuesInit, onRemove |-> FALSE,
            key |-> "", text |-> "", sent |-> 0]

Init ==
    /\ following \in FollowConfigs
    /\ posts \in InitStores
    /\ before = posts
    /\ now \in {LastCreated(posts), LastCreated(posts) + 1}
    /\ nextId = Len(posts) + 1
    /\ pending = <<>>
    /\ uploadCalls = 0
    /\ req = NoReq
    /\ res = NoRes
    /\ stage = "none"
    /\ invoked = <<>>
    /\ called = "none"
    /\ jwt = 1
    /\ page = PlainPage
    /\ nf = NfInit
    /\ pf = PfInit
    /\ pv = PvInit
    /\ calls = <<>>
    /\ ev = NoEvent

\* -------------------------------------------------------------- server steps
\* A request in flight: the request, what its handler awaits, the handlers
\* that ran for it; for a create the document its callback has constructed
\* and the uploads made for it; for a query what it has read, and the
\* collection it read that from.
InFlight(ctx, r) ==
    [r |-> r, doc |-> ctx.doc, awaits |-> ctx.awaits, invoked |-> ctx.invoked,
     uploadCalls |-> ctx.uploadCalls, found |-> ctx.found,
     store |-> IF ctx.awaits = "query" THEN ctx.posts ELSE <<>>]

\* One request, carried through its route's chain until every handler has
\* returned: answered by then, or left in flight with its response unwritten
\* (listNewsFeed and listByUser await their query, create hands the request
\* to form.parse).  pending lists the queries ahead of the creates; its order
\* carries no meaning, any request in flight may be resumed next.
Handled(r) ==
    LET ctx == Dispatch(posts, r)
    IN  /\ posts' = ctx.posts
        /\ following' = ctx.following
        /\ before' = posts
        /\ pending' = IF ctx.awaits = "none" THEN pending
                       ELSE IF ctx.awaits = "query" THEN <<InFlight(ctx, r)>> \o pending
                       ELSE Append(pending, InFlight(ctx, r))
        /\ uploadCalls' = ctx.uploadCalls
        /\ req' = r
        /\ res' = ctx.res
        /\ stage' = ctx.awaits
        /\ invoked' = ctx.invoked
        /\ UNCHANGED <<now, nextId, clientVars>>

\* The context of a request in flight when its handler is resumed: the store
\* as it is by then.
Resume(e) ==
    [NewCtx(posts) EXCEPT !.doc = e.doc, !.awaits = e.awaits, !.invoked = e.invoked,
                          !.uploadCalls = e.uploadCalls, !.found = e.found]

\* What a turn of the handler of the i-th request in flight leaves behind.
\* The collection the request found is the one its query read, or the one
\* the turn started with.
Continued(i, ctx, r) ==
    /\ posts' = ctx.posts
    /\ before' = IF pending[i].awaits = "query" THEN pending[i].store ELSE posts
    /\ pending' = IF ctx.awaits \in {"none", "never"} THEN Without(pending, i)
                   ELSE [pending EXCEPT ![i] = InFlight(ctx, r)]
    /\ uploadCalls' = ctx.uploadCalls
    /\ req' = r
    /\ res' = ctx.res
    /\ stage' = ctx.awaits
    /\ invoked' = ctx.invoked
    /\ called' = "none"
    /\ UNCHANGED <<following, clientVars>>

UserIds == {NoUser} \cup Users          \* values of a :userId segment
PostIdsIn == {NoPost} \cup (1..MaxPosts) \* values of a :postId segment
Creds == {NoCred} \cup Users

\* A feed or by-user request is taken on while the bounds leave room for the
\* query its handler sends.
Querying == Cardinality({i \in 1..Len(pending) : pending[i].awaits = "query"})

ReqFeed ==
    /\ Len(pending) < MaxPending /\ Querying < MaxQueries
    /\ \E id \in UserIds, cred \in {NoCred, 1} :
         /\ Handled([NoReq EXCEPT !.route = "feed", !.id = id, !.cred = cred])
         /\ called' = "none"

ReqByUser ==
    /\ Len(pending) < MaxPending /\ Querying < MaxQueries
    /\ \E id \in UserIds, cred \in {NoCred, 1} :
         /\ Handled([NoReq EXCEPT !.route = "by", !.id = id, !.cred = cred])
         /\ called' = "none"

\* The query of a feed or by-user request in flight settles: the database
\* answers it, or the query fails; the handler writes the response.
QuerySettles ==
    \E i \in 1..Len(pending), ok \in BOOLEAN :
        LET e == pending[i]
            r == [e.r EXCEPT !.queryOk = ok]
        IN  /\ e.awaits = "query"
            /\ Continued(i, IF r.route = "feed" THEN listNewsFeedFound(Resume(e), r)
                                ELSE listByUserFound(Resume(e), r), r)
            /\ UNCHANGED <<now, nextId>>

\* The multipart bodies of a create request: unparseable, or a text field
\* (possibly empty), possibly a postedBy field, possibly a photo file.
CreateBodies(id) ==
    {[NoReq EXCEPT !.parseErr = TRUE]}
    \cup {[NoReq EXCEPT !.text = f[1], !.fieldPostedBy = f[2]] :
            f \in {<<"hello", id>>, <<"hello", NoUser>>, <<"", id>>}}
    \cup {[NoReq EXCEPT !.text = "hello", !.fieldPostedBy = by, !.hasFile = TRUE] :
            by \in {NoUser, id}}

\* A create request is taken on while an id is left for its document.
Unparsed == Cardinality({i \in 1..Len(pending) : pending[i].awaits = "parse"})

ReqCreate ==
    /\ Len(pending) < MaxPending
    /\ nextId + Unparsed <= MaxPosts
    /\ \E id \in {NoUser, 1}, cred \in {NoCred, 1} :
         \E b \in (IF id \in Users /\ cred # NoCred
                   THEN CreateBodies(id)
                   ELSE {[NoReq EXCEPT !.text = "hello"], [NoReq EXCEPT !.parseErr = TRUE]}) :
            /\ Handled([b EXCEPT !.route = "new", !.id = id, !.cred = cred])
            /\ called' = "none"

\* form.parse calls back: on success the document is constructed (it gets the
\* next id and the clock's time as created) and the callback goes on to the
\* upload or to the save.
CreateParses ==
    \E i \in 1..Len(pending) :
        /\ pending[i].awaits = "parse"
        /\ Continued(i, createParsed(Resume(pending[i]), pending[i].r, nextId, now),
                     pending[i].r)
        /\ nextId' = IF pending[i].r.parseErr THEN nextId ELSE nextId + 1
        /\ now' = IF pending[i].r.parseErr THEN now ELSE now + 1

\* The media store answers the upload: it took the file, or it failed.
CreateUploadSettles ==
    \E i \in 1..Len(pending), ok \in BOOLEAN :
        LET r == [pending[i].r EXCEPT !.uploadOk = ok]
        IN  /\ pending[i].awaits = "upload"
            /\ Continued(i, createUploaded(Resume(pending[i]), r), r)
            /\ UNCHANGED <<now, nextId>>

CreateSaveSettles ==
    \E i \in 1..Len(pending) :
        /\ pending[i].awaits = "save"
        /\ Continued(i, createSaved(Resume(pending[i]), pending[i].r), pending[i].r)
        /\ UNCHANGED <<now, nextId>>

ReqPhoto ==
    \E id \in PostIdsIn, cred \in {NoCred, 1} :
        /\ Handled([NoReq EXCEPT !.route = "photo", !.id = id, !.cred = cred])
        /\ called' = "none"

ReqDelete ==
    \E id \in PostIdsIn, cred \in Creds :
        /\ Handled([NoReq EXCEPT !.route = "delete", !.id = id, !.cred = cred])
        /\ called' = "none"

Next ==
    \/ ReqFeed \/ ReqByUser \/ QuerySettles \/ ReqPhoto \/ ReqDelete
    \/ ReqCreate \/ CreateParses \/ CreateUploadSettles \/ CreateSaveSettles

Spec == Init /\ [][Next]_vars

\* -------------------------------------------------- like / unlike round trips
\* Post.clickLike calls like or unlike with the signed-in user's id and token
\* (the token may have expired) and the post's id, from the page the post is
\* shown on; the server answers.
Credentials(u, tokenValid) == [t |-> IF tokenValid THEN u ELSE NoCred]

CallLike ==
    \E u \in Users, tokenValid \in BOOLEAN, postId \in PostIdsIn, dir \in PageDirs :
        /\ Handled(like([userId |-> u], Credentials(u, tokenValid), postId, dir))
        /\ called' = "like"

CallUnlike ==
    \E u \in Users, tokenValid \in BOOLEAN, postId \in PostIdsIn, dir \in PageDirs :
        /\ Handled(unlike([userId |-> u], Credentials(u, tokenValid), postId, dir))
        /\ called' = "unlike"

\* Stores of posts nobody has liked yet.
InitLike ==
    /\ following = FollowNext
    /\ posts \in {s \in InitStores :
                    \A i \in 1..Len(s) : s[i].postedBy = 1 /\ s[i].comments = <<>>}
    /\ before = posts
    /\ now = LastCreated(posts)
    /\ nextId = Len(posts) + 1
    /\ pending = <<>>
    /\ uploadCalls = 0
    /\ req = NoReq
    /\ res = NoRes
    /\ stage = "none"
    /\ invoked = <<>>
    /\ called = "none"
    /\ jwt = 1
    /\ page = PlainPage
    /\ nf = NfInit
    /\ pf = PfInit
    /\ pv = PvInit
    /\ calls = <<>>
    /\ ev = NoEvent

NextLike == CallLike \/ CallUnlike

SpecLike == InitLike /\ [][NextLike]_vars

\* ------------------------------------------------------------ Newsfeed.js
\* listNewsFeed(params, credentials, signal): the fetch it starts.
apiListNewsFeedDropsSignal(params, credentials, signal) ==
    [state |-> "pending", signal |-> FALSE, userId |-> params.userId]
apiListNewsFeed(params, credentials, signal) ==
    [state |-> "pending", signal |-> signal, userId |-> params.userId]

\* abortController.abort(): a fetch that was given the signal and has not
\* settled is rejected.
Abort(f) == IF f.state = "pending" /\ f.signal THEN [f EXCEPT !.state = "aborted"] ELSE f

Settled(f) == IF f.state = "aborted" THEN "rejected" ELSE "settled"

\* The API function's try/catch around fetch and response.json(): an aborted
\* or failed fetch is logged and undefined is returned.
ApiResult(f, body) == IF f.state = "aborted" THEN Undefined ELSE body

\* if (data.error): with data undefined the read of .error throws a TypeError
\* inside the .then callback, and no .catch follows.
ReadsErrorOf(data) == data.kind = "undefined"

\* .then(data => { if (data.error) console.log(data.error) else setPosts(data) })
NewsfeedOnData(viewPosts, data) ==
    CASE data.kind = "undefined" -> viewPosts
      [] data.kind = "error"     -> viewPosts
      [] OTHER                   -> data.docs

FeedBodies == {Undefined, ErrorBody} \cup {ListBody(ids) : ids \in {<<>>, <<1>>, <<2, 1>>}}

\* Whether the posts of a feed answer carry their author as a populated
\* record: as the controller's query leaves them.
FeedAuthorsPopulated ==
    FeedPopulate(ToView(NewPostDoc(1, "hi", 1, 1))).postedBy.populated

\* The posts of the list that carry a populated author after the answer.
PopulatedOnData(view, data) ==
    IF data.kind = "list"
    THEN (IF FeedAuthorsPopulated THEN Range(data.docs) ELSE {})
    ELSE view.populated

\* The Newsfeed renders again after a change of its state: PostList (not in
\* src/) renders a Post for every post of the list.  A render that raises
\* takes the whole tree off the page; the effect's cleanup runs.
NfRender(view) ==
    IF view.phase = "mounted" /\ view.posts # <<>> /\ PostRenderRaises(page, <<>>, jwt)
    THEN [view EXCEPT !.phase = "crashed", !.fetch = Abort(@)]
    ELSE view

NfMount ==
    /\ nf.phase = "initial"
    /\ nf' = [nf EXCEPT !.phase = "mounted",
                        !.fetch = apiListNewsFeed([userId |-> jwt], [t |-> jwt], TRUE)]
    /\ UNCHANGED <<serverVars, jwt, page, pf, pv, calls, ev>>

NfFetchSettles ==
    /\ nf.fetch.state \in {"pending", "aborted"}
    /\ \E body \in FeedBodies :
         LET data == ApiResult(nf.fetch, body)
         IN  /\ nf' = NfRender([nf EXCEPT !.posts = NewsfeedOnData(@, data),
                                          !.populated = PopulatedOnData(nf, data),
                                          !.fetch.state = Settled(nf.fetch)])
             /\ ev' = [NoEvent EXCEPT !.handler = "listNewsFeed.then", !.data = data,
                                      !.raised = ReadsErrorOf(data), !.shown = nf.posts]
    /\ UNCHANGED <<serverVars, jwt, page, pf, pv, calls>>

\* The effect's cleanup, run when the view is discarded.
NfUnmount ==
    /\ nf.phase = "mounted"
    /\ nf' = [nf EXCEPT !.phase = "unmounted", !.fetch = Abort(@)]
    /\ UNCHANGED <<serverVars, jwt, page, pf, pv, calls, ev>>

\* -------------------------------------------------------------- Profile.js
\* read(params, credentials, signal) of the user API client (not in src/).
read(params, credentials, signal) ==
    [state |-> "pending", signal |-> signal, userId |-> params.userId]

\* checkFollow(user): is the signed-in user among user.followers?
checkFollow(data) == jwt \in Range(data.followers)

\* .then(data => { if (data && data.error) setValues({...values, redirectToSignin: true})
\*                 else { let following = checkFollow(data)
\*                        setValues({...values, user: data, following: following}) } })
\* values is the state of the render the effect ran in; checkFollow(undefined)
\* throws before setValues is reached.
ProfileOnData(current, captured, data) ==
    CASE data.kind = "undefined" -> current
      [] data.kind = "error"     -> [captured EXCEPT !.redirectToSignin = TRUE]
      [] OTHER                   -> [captured EXCEPT !.user = data.id,
                                                     !.followers = data.followers,
                                                     !.following = checkFollow(data)]

ReadBodies(u) == {Undefined, ErrorBody} \cup {UserBody(u, fs) : fs \in {<<>>, <<1>>, <<2, 1>>}}

\* The effect of Profile: abort the previous run's fetch (cleanup), start a
\* read of the user the route names.
ProfileEffect(view, userId) ==
    [view EXCEPT !.userId = userId,
                 !.fetches = Append([i \in 1..Len(view.fetches) |->
                                        [view.fetches[i] EXCEPT !.fetch = Abort(@)]],
                                    [fetch |-> read([userId |-> userId], [t |-> jwt], TRUE),
                                     values |-> view.values])]

PfMount ==
    /\ pf.phase = "initial"
    /\ \E u \in Users : pf' = ProfileEffect([pf EXCEPT !.phase = "mounted"], u)
    /\ UNCHANGED <<serverVars, jwt, page, nf, pv, calls, ev>>

\* match.params.userId changes while the view stays mounted.
PfNavigate ==
    /\ pf.phase = "mounted"
    /\ Len(pf.fetches) < MaxFetches
    /\ \E u \in Users \ {pf.userId} : pf' = ProfileEffect(pf, u)
    /\ UNCHANGED <<serverVars, jwt, page, nf, pv, calls, ev>>

PfFetchSettles ==
    /\ \E i \in 1..Len(pf.fetches) :
         LET f == pf.fetches[i]
         IN  /\ f.fetch.state \in {"pending", "aborted"}
             /\ \E body \in ReadBodies(f.fetch.userId) :
                  LET data == ApiResult(f.fetch, body)
                  IN  /\ pf' = [pf EXCEPT
                                  !.values = ProfileOnData(@, f.values, data),
                                  !.fetches[i].fetch.state = Settled(f.fetch)]
                      /\ ev' = [NoEvent EXCEPT !.handler = "read.then", !.data = data,
                                               !.raised = ReadsErrorOf(data),
                                               !.was = pf.values, !.captured = f.values]
    /\ UNCHANGED <<serverVars, jwt, page, nf, pv, calls>>

PfUnmount ==
    /\ pf.phase = "mounted"
    /\ pf' = [pf EXCEPT !.phase = "unmounted",
                        !.fetches = [i \in 1..Len(pf.fetches) |->
                                        [pf.fetches[i] EXCEPT !.fetch = Abort(@)]]]
    /\ UNCHANGED <<serverVars, jwt, page, nf, pv, calls, ev>>

InitClient ==
    /\ following = FollowNext
    /\ posts = <<>>
    /\ before = posts
    /\ now = 1
    /\ nextId = Len(posts) + 1
    /\ pending = <<>>
    /\ uploadCalls = 0
    /\ req = NoReq
    /\ res = NoRes
    /\ stage = "none"
    /\ invoked = <<>>
    /\ called = "none"
    /\ jwt \in Users
    /\ page \in Pages
    /\ nf = NfInit
    /\ pf = PfInit
    /\ pv = PvInit
    /\ calls = <<>>
    /\ ev = NoEvent

NextClient ==
    \/ NfMount \/ NfFetchSettles \/ NfUnmount
    \/ PfMount \/ PfNavigate \/ PfFetchSettles \/ PfUnmount

SpecClient == InitClient /\ [][NextClient]_vars

\* ------------------------------------------- Newsfeed.js: addPost, removePost
\* const updatedPost = [...posts]; updatedPost.unshift(post); setPosts(updatedPost)
\* posts is the list of the render the function was created in.
addPost(closurePosts, post) == <<post>> \o closurePosts

\* Array.prototype.indexOf: the zero-based position of the first element
\* identical to x, -1 when there is none.
IndexOf(s, x) ==
    IF x \in Range(s)
    THEN (CHOOSE i \in 1..Len(s) : s[i] = x /\ \A j \in 1..(i - 1) : s[j] # x) - 1
    ELSE -1

\* Array.prototype.splice(index, 1): a negative index counts back from the end.
Splice1(s, index) ==
    LET start == IF index < 0
                 THEN (IF Len(s) + index < 0 THEN 0 ELSE Len(s) + index)
                 ELSE (IF index > Len(s) THEN Len(s) ELSE index)
    IN  SubSeq(s, 1, start) \o SubSeq(s, start + 2, Len(s))

\* const updatedPost = [...posts]; const index = updatedPost.indexOf(post)
\* updatedPost.splice(index, 1); setPosts(updatedPost)
removePost(closurePosts, post) == Splice1(closurePosts, IndexOf(closurePosts, post))

\* ------------------------------------------------------- in-flight API calls
\* A call a handler made: the API function, the post it is about, the posts
\* list and the values of the render the handler was created in (populated:
\* the posts of that list which carry a populated author), the text it
\* carries, and (once the server has answered) the value the API function
\* resolves to.
NewCall(api, post, closurePosts, captured) ==
    [api |-> api, post |-> post, closure |-> closurePosts, populated |-> {},
     captured |-> captured, text |-> "", state |-> "sent", body |-> Undefined]

\* return await response.json(), inside the API function's try: an error body,
\* the post, or (a body that is no JSON, such as the default 404 page, makes
\* json() throw and the catch return) undefined.
ApiJson(r) ==
    CASE r.kind = "error" -> ErrorBody
      [] r.kind = "doc"   -> PostBody(r.docs[1]._id, r.docs[1].likes)
      [] OTHER            -> Undefined

\* ------------------------------------------------- NewPost (not in src/)
\* The posts NewPost hands to addPost are newly created ones: their ids follow
\* the ids a feed answer can hold.
NewIds == {MaxPosts + 1}

\* The author of a post on screen: posts of the feed alternate between the
\* users, a post NewPost created is the signed-in user's.
FeedAuthor(id) == IF id \in 1..MaxPosts THEN ((id - 1) % NumUsers) + 1 ELSE jwt

\* The postedBy of a post of the list, as the list holds it.
PostedBy(view, p) ==
    IF p \in view.populated THEN PopulatedRef(FeedAuthor(p)) ELSE BareRef(FeedAuthor(p))

\* NewPost's submit handler calls the create API; props.addUpdate is the
\* addPost of the Newsfeed render that rendered this NewPost, and posts the
\* list of that render: the post objects it held, each with its author as it
\* was then.
clickPost(post, view) ==
    [NewCall("create", post, view.posts, PvValuesInit) EXCEPT !.populated = view.populated]

NewPostClick ==
    /\ nf.phase = "mounted"
    /\ Len(calls) < MaxCalls
    /\ \E p \in NewIds \ (Range(nf.posts) \cup {calls[i].post : i \in 1..Len(calls)}) :
         /\ calls' = Append(calls, clickPost(p, nf))
         /\ ev' = [NoEvent EXCEPT !.handler = "clickPost", !.arg = p, !.shown = nf.posts,
                                  !.closure = nf.posts, !.sent = 1]
    /\ UNCHANGED <<serverVars, jwt, page, nf, pf, pv>>

\* The create call is answered with the created post, which carries its
\* author as the save left it (a bare id), and NewPost calls props.addUpdate
\* with it: the addPost of the render the handler was created in, which sets
\* the list to the new post followed by the post objects of that render.
NfAddPost ==
    \E i \in 1..Len(calls) :
        /\ calls[i].api = "create"
        /\ nf' = NfRender([nf EXCEPT !.posts = addPost(calls[i].closure, calls[i].post),
                                     !.populated = calls[i].populated \ {calls[i].post}])
        /\ ev' = [NoEvent EXCEPT !.handler = "addPost", !.arg = calls[i].post,
                                 !.shown = nf.posts, !.closure = calls[i].closure]
        /\ calls' = Without(calls, i)
        /\ UNCHANGED <<serverVars, jwt, page, pf, pv>>

\* ------------------------------------------------------ Post.js: deletePost
\* action={ props.post.postedBy._id === auth.isAuthenticated().user._id && <IconButton .../> }
DeleteControlShown(postedBy) == IdOf(postedBy) = jwt

\* deletePost: remove({postId: props.post._id}, {t: jwt.token}); props.onRemove
\* is the removePost of the Newsfeed render that rendered this Post, and posts
\* the list of that render.
deletePost(post, view) ==
    [NewCall("remove", post, view.posts, PvValuesInit) EXCEPT !.populated = view.populated]

\* .then(data => { if (data.error) console.log(data.error) else props.onRemove(props.post) })
\* removePost sets the list to the post objects of its render, each with its
\* author as it was then, without the removed one.
deletePostThen(view, call, data) ==
    LET left == removePost(call.closure, call.post)
    IN  IF ReadsErrorOf(data) \/ data.kind = "error"
        THEN [posts |-> view.posts, populated |-> view.populated, onRemove |-> FALSE]
        ELSE [posts |-> left, populated |-> call.populated \cap Range(left),
              onRemove |-> TRUE]

\* The answers to DELETE /api/posts/:postId: none that parses, an error, the
\* deleted post.
DeleteBodies(post) == {Undefined, ErrorBody, PostBody(post, <<>>)}

\* The Posts of the list are on the page (the Newsfeed is mounted), and the
\* delete control of one of them is clicked.  The control is shown for a post
\* that carries a populated author only; the lists the post controller serves
\* carry bare ids (DeleteNeverOffered), so no specification takes this step
\* or the next.
PostClickDelete ==
    /\ nf.phase = "mounted"
    /\ Len(calls) < MaxCalls
    /\ \E p \in Range(nf.posts) :
         /\ DeleteControlShown(PostedBy(nf, p))
         /\ calls' = Append(calls, deletePost(p, nf))
         /\ ev' = [NoEvent EXCEPT !.handler = "deletePost", !.arg = p, !.shown = nf.posts,
                                  !.closure = nf.posts, !.sent = 1]
    /\ UNCHANGED <<serverVars, jwt, page, nf, pf, pv>>

PostDeleteSettles ==
    \E i \in 1..Len(calls) :
        /\ calls[i].api = "remove"
        /\ \E data \in DeleteBodies(calls[i].post) :
             LET out == deletePostThen(nf, calls[i], data)
             IN  /\ nf' = NfRender([nf EXCEPT !.posts = out.posts,
                                              !.populated = out.populated])
                 /\ ev' = [NoEvent EXCEPT !.handler = "deletePost.then", !.data = data,
                                          !.raised = ReadsErrorOf(data),
                                          !.arg = calls[i].post, !.shown = nf.posts,
                                          !.closure = calls[i].closure,
                                          !.onRemove = out.onRemove]
        /\ calls' = Without(calls, i)
        /\ UNCHANGED <<serverVars, jwt, page, pf, pv>>

\* ------------------------------------------------ Post.js: checkLike, clickLike
\* const checkLike = (like) => { const match = likes.indexOf(jwt.user._id) !== -1
\*                               return match }
\* The parameter is like; the body reads likes, which is no parameter and no
\* declaration of the module.
checkLike(arg, likesGlobal) ==
    [raised |-> ~likesGlobal.defined, match |-> jwt \in Range(likesGlobal.value)]

\* useState({ like: checkLike(props.post.likes), likes: props.post.likes.length,
\*            comments: props.post.comments })
\* and then the JSX the function returns, Comments included: the view is on
\* the page only if none of it raises.
PostFirstRender(view, post, dir, pg) ==
    LET c == checkLike(post.likes, pg.likes)
    IN  IF c.raised \/ PostRenderRaises(pg, post.comments, jwt)
        THEN [view EXCEPT !.phase = "crashed", !.props = post, !.dir = dir]
        ELSE [view EXCEPT !.phase = "mounted", !.props = post, !.dir = dir,
                          !.values = [like |-> c.match, likes |-> Len(post.likes),
                                      comments |-> post.comments],
                          !.lastLikes = post.likes]

\* clickLike: let callApi = values.like ? unlike : like
clickLike(values, post) ==
    NewCall(IF values.like THEN "unlike" ELSE "like", post, <<>>, values)

\* .then(data => { if (data.error) console.log(data.error)
\*                 else setValues({...values, like: !values.like, likes: data.likes.length}) })
\* values is the state of the render clickLike was created in.
clickLikeThen(current, captured, data) ==
    IF ReadsErrorOf(data) \/ data.kind = "error" THEN current
    ELSE [captured EXCEPT !.like = ~captured.like, !.likes = Len(data.likes)]

\* The request a like / unlike call puts on the wire.
LikeRequest(call, tokenValid, dir) ==
    IF call.api = "like"
    THEN like([userId |-> jwt], Credentials(jwt, tokenValid), call.post, dir)
    ELSE unlike([userId |-> jwt], Credentials(jwt, tokenValid), call.post, dir)

\* A Post is rendered for a stored post, as the feed lists it.
PostRender ==
    /\ pv.phase = "initial"
    /\ \E i \in 1..Len(posts), dir \in PageDirs :
         pv' = PostFirstRender(pv, FeedPopulate(ToView(posts[i])), dir, page)
    /\ UNCHANGED <<serverVars, jwt, page, nf, pf, calls, ev>>

PostClickLike ==
    /\ pv.phase = "mounted"
    /\ Len(calls) < MaxCalls
    /\ calls' = Append(calls, clickLike(pv.values, pv.props._id))
    /\ ev' = [NoEvent EXCEPT !.handler = "clickLike", !.arg = pv.props._id,
                             !.was = pv.values, !.captured = pv.values, !.sent = 1]
    /\ UNCHANGED <<serverVars, jwt, page, nf, pf, pv>>

\* The request of a like / unlike call reaches the server (its token may have
\* expired) and is answered; or the fetch fails on the way.
PostLikeAnswered ==
    \E i \in 1..Len(calls) :
        /\ calls[i].api \in {"like", "unlike"}
        /\ calls[i].state = "sent"
        /\ \/ \E tokenValid \in BOOLEAN :
                LET r == LikeRequest(calls[i], tokenValid, pv.dir)
                    ctx == Dispatch(posts, r)
                IN  /\ posts' = ctx.posts
                    /\ following' = ctx.following
                    /\ before' = posts
                    /\ req' = r
                    /\ res' = ctx.res
                    /\ stage' = ctx.awaits
                    /\ invoked' = ctx.invoked
                    /\ called' = calls[i].api
                    /\ calls' = [calls EXCEPT ![i].state = "answered",
                                              ![i].body = ApiJson(ctx.res)]
           \/ /\ calls' = [calls EXCEPT ![i].state = "answered", ![i].body = Undefined]
              /\ UNCHANGED <<posts, following, before, req, res, stage, invoked, called>>
        /\ UNCHANGED <<now, nextId, pending, uploadCalls, jwt, page, nf, pf, pv, ev>>

PostLikeSettles ==
    \E i \in 1..Len(calls) :
        /\ calls[i].api \in {"like", "unlike"}
        /\ calls[i].state = "answered"
        /\ LET data == calls[i].body
           IN  /\ pv' = [pv EXCEPT !.values = clickLikeThen(@, calls[i].captured, data),
                                   !.lastLikes = IF data.kind = "post" THEN data.likes ELSE @]
               /\ ev' = [NoEvent EXCEPT !.handler = "clickLike.then", !.data = data,
                                        !.raised = ReadsErrorOf(data),
                                        !.arg = calls[i].post, !.was = pv.values,
                                        !.captured = calls[i].captured]
        /\ calls' = Without(calls, i)
        /\ UNCHANGED <<serverVars, jwt, page, nf, pf>>

\* ------------------------------------------------- Comments.js: addComment
\* A key-down event on the comment field: the key's name (KeyboardEvent.code),
\* its number (keyCode) and the field's content (event.target.value).
KeyEvents ==
    {[code |-> c[1], keyCode |-> c[2], value |-> v] :
        c \in {<<"Enter", 13>>, <<"NumpadEnter", 13>>, <<"KeyA", 65>>}, v \in {"", "hi"}}

\* x == 13 with x a string compares Number(x) with 13; Number of a string that
\* is no numeral is NaN, which equals nothing.
NaN == -1
StringToNumber(str) == IF str = "13" THEN 13 ELSE NaN

\* if (event.code == 13 && event.target.value) { event.preventDefault()
\*     comment({userId: jwt.user._id}, {t: jwt.token}, props.postId, {text: text}) ... }
addComment(event, postId, text) ==
    IF StringToNumber(event.code) = 13 /\ event.value # ""
    THEN <<[NewCall("comment", postId, <<>>, PvValuesInit) EXCEPT !.text = text]>>
    ELSE <<>>

CommentKeyDown ==
    /\ pv.phase = "mounted"
    /\ \E event \in KeyEvents :
         LET sent == addComment(event, pv.props._id, event.value)
         IN  /\ Len(calls) + Len(sent) <= MaxCalls
             /\ calls' = calls \o sent
             /\ ev' = [NoEvent EXCEPT !.handler = "addComment", !.arg = pv.props._id,
                                      !.key = event.code, !.text = event.value,
                                      !.was = pv.values, !.sent = Len(sent)]
    /\ UNCHANGED <<serverVars, jwt, page, nf, pf, pv>>

\* Stores of one post, liked by nobody, by the signed-in user or by another,
\* without comments or with one.
InitPost ==
    /\ following = FollowNext
    /\ jwt \in Users
    /\ page \in Pages
    /\ \E by \in Users, ls \in {<<>>, <<1>>, <<NumUsers>>},
          cs \in {<<>>, <<Comment1>>} :
         /\ (cs # <<>>) => (ls = <<>>)
         /\ posts = <<[NewPostDoc(1, "hi", by, 1) EXCEPT !.likes = ls, !.comments = cs]>>
    /\ before = posts
    /\ now = 1
    /\ nextId = Len(posts) + 1
    /\ pending = <<>>
    /\ uploadCalls = 0
    /\ req = NoReq
    /\ res = NoRes
    /\ stage = "none"
    /\ invoked = <<>>
    /\ called = "none"
    /\ nf = NfInit
    /\ pf = PfInit
    /\ pv = PvInit
    /\ calls = <<>>
    /\ ev = NoEvent

NextPost ==
    \/ PostRender \/ PostClickLike \/ PostLikeAnswered \/ PostLikeSettles
    \/ CommentKeyDown

SpecPost == InitPost /\ [][NextPost]_vars

\* The Newsfeed with its NewPost, served by the post controller.
NextFeed == NfMount \/ NfFetchSettles \/ NewPostClick \/ NfAddPost

SpecFeed == InitClient /\ [][NextFeed]_vars

\* removePost as the function PostList is handed (removeUpdate): called with
\* any post, one of the list or not.
RemoveArgs == 1..(MaxPosts + 1)

NfRemovePost ==
    /\ nf.phase = "mounted"
    /\ \E p \in RemoveArgs :
         /\ nf' = NfRender([nf EXCEPT !.posts = removePost(nf.posts, p)])
         /\ ev' = [NoEvent EXCEPT !.handler = "removePost", !.arg = p,
                                  !.shown = nf.posts, !.closure = nf.posts]
    /\ UNCHANGED <<serverVars, jwt, page, pf, pv, calls>>

NextRemove ==
    \/ NfMount \/ NfFetchSettles \/ NfUnmount
    \/ NewPostClick \/ NfAddPost \/ NfRemovePost

SpecRemove == InitClient /\ [][NextRemove]_vars

\* ------------------------------------------ Profile.js: clickFollowButton
\* if (values.redirectToSignin) return <Redirect to='/signin'/>
\* auth.isAuthenticated().user._id == values.user._id ? (edit, delete)
\*     : <FollowProfileButton following={values.following} onButtonClick={clickFollowButton}/>
FollowButtonShown(values) == ~values.redirectToSignin /\ jwt # values.user

\* FollowProfileButton (not in src/) hands unfollow to onButtonClick when its
\* following prop is set, follow otherwise.
FollowApi(values) == IF values.following THEN "unfollow" ELSE "follow"

\* clickFollowButton(callApi):
\*   callApi({userId: jwt.user._id}, {t: jwt.token}, values.user._id)
clickFollowButton(callApi, values) == NewCall(callApi, values.user, <<>>, values)

\* .then(data => { if (data.error) setValues({...values, error: data.error})
\*                 else setValues({...values, user: data, following: !values.following}) })
\* values is the state of the render clickFollowButton was created in.
clickFollowThen(current, captured, data) ==
    CASE ReadsErrorOf(data)     -> current
      [] data.kind = "error"    -> [captured EXCEPT !.error = "error"]
      [] OTHER                  -> [captured EXCEPT !.user = data.id,
                                                    !.followers = data.followers,
                                                    !.following = ~captured.following]

\* The answers to a follow / unfollow call: none that parses, an error, the
\* followed user with the signed-in user among its followers (follow) or not
\* (unfollow).
FollowBodies(call) ==
    {Undefined, ErrorBody,
     UserBody(call.post, IF call.api = "follow" THEN <<jwt>> ELSE <<>>)}

PfClickFollow ==
    /\ pf.phase = "mounted"
    /\ FollowButtonShown(pf.values)
    /\ Len(calls) < MaxCalls
    /\ calls' = Append(calls, clickFollowButton(FollowApi(pf.values), pf.values))
    /\ ev' = [NoEvent EXCEPT !.handler = "clickFollowButton", !.was = pf.values,
                             !.captured = pf.values, !.sent = 1]
    /\ UNCHANGED <<serverVars, jwt, page, nf, pf, pv>>

PfFollowSettles ==
    \E i \in 1..Len(calls) :
        /\ calls[i].api \in {"follow", "unfollow"}
        /\ \E data \in FollowBodies(calls[i]) :
             /\ pf' = [pf EXCEPT !.values = clickFollowThen(@, calls[i].captured, data)]
             /\ ev' = [NoEvent EXCEPT !.handler = "clickFollowButton.then", !.data = data,
                                      !.raised = ReadsErrorOf(data), !.was = pf.values,
                                      !.captured = calls[i].captured]
        /\ calls' = Without(calls, i)
        /\ UNCHANGED <<serverVars, jwt, page, nf, pv>>

\* One Profile view: its read on mount and its follow button.
NextProfile == PfMount \/ PfFetchSettles \/ PfClickFollow \/ PfFollowSettles

SpecProfile == InitClient /\ [][NextProfile]_vars

\* ===================================================================== claims
Protected == {"feed", "by", "new", "delete"}
Reached(handler) == handler \in Range(invoked)
IdResolved ==
    CASE RouteParam(req.route) = "userId" -> req.id \in Users
      [] RouteParam(req.route) = "postId" -> req.id \in PostIds(before)
      [] OTHER                            -> TRUE
DocIds == {res.docs[i]._id : i \in 1..Len(res.docs)}
Descending(docs) ==
    \A i, j \in 1..Len(docs) : i < j => docs[i].created >= docs[j].created
\* The posts stored when the request's query read the collection.
StoredIdsBy(authors) == {p._id : p \in {q \in Range(before) : q.postedBy \in authors}}
SameAsStored(v) ==
    /\ v._id \in PostIds(before)
    /\ LET p == PostById(before, v._id)
       IN  v.text = p.text /\ v.created = p.created /\ v.postedBy._id = p.postedBy

IsAuthorRecord(ref) == ref.populated /\ ref.name = UserName(ref._id)
C2_FeedAuthorsPopulated ==
    (req.route = "feed" /\ res.kind = "list") =>
        \A i \in 1..Len(res.docs) :
            /\ IsAuthorRecord(res.docs[i].postedBy)
            /\ \A k \in 1..Len(res.docs[i].comments) :
                   IsAuthorRecord(res.docs[i].comments[k].postedBy)

\* C3: a successful listByUser answers with a body holding exactly the posts
\* U wrote, newest first.
C3_ByUserBody ==
    (req.route = "by" /\ res.status = 200) =>
        /\ res.kind = "list"
        /\ DocIds = StoredIdsBy({req.id})
        /\ Len(res.docs) = Cardinality(DocIds)
        /\ Descending(res.docs)

\* C4: a create request with a text and no photo, by an authenticated user,
\* stores exactly one new post without photo whose postedBy is that user, and
\* answers with the saved post carrying the text (once its save has settled).
C4_CreateTextOnly ==
    (/\ req.route = "new" /\ req.id \in Users /\ req.cred = req.id
     /\ ~req.parseErr /\ req.text # "" /\ ~req.hasFile /\ stage = "none") =>
        /\ res.status = 200 /\ res.kind = "doc"
        /\ res.docs[1].text = req.text
        /\ Len(posts) = Len(before) + 1
        /\ Front(posts) = before
        /\ posts[Len(posts)]._id = res.docs[1]._id
        /\ posts[Len(posts)].photo = NoPhoto
        /\ posts[Len(posts)].postedBy = req.cred

\* C5: a create request whose multipart body cannot be parsed is answered 400
\* "Image could not be uploaded"; nothing is uploaded, nothing saved.
C5_ParseFailure ==
    (req.route = "new" /\ req.parseErr /\ Reached("create") /\ stage # "parse") =>
        /\ stage = "none"
        /\ res = JsonError(400, "Image could not be uploaded")
        /\ uploadCalls = 0
        /\ posts = before

C5_Witness ==
    /\ req.route = "new" /\ req.parseErr /\ Reached("create")
    /\ res.status = 400 /\ before # <<>>

\* C6: DELETE runs requireSignin, isPoster, remove in that order, remove only
\* after isPoster let the request through; an authenticated user who is not
\* the author gets 403 and the store is as it was.
IsPrefix(s, t) == Len(s) <= Len(t) /\ SubSeq(t, 1, Len(s)) = s
DeleteByNonAuthor ==
    /\ req.route = "delete" /\ req.id \in PostIds(before) /\ req.cred # NoCred
    /\ PostById(before, req.id).postedBy # req.cred
C6_DeleteNeedsPoster ==
    /\ req.route = "delete" =>
          /\ IsPrefix(invoked, <<"postByID", "requireSignin", "isPoster", "remove">>)
          /\ Reached("remove") => PostById(before, req.id).postedBy = req.cred
    /\ DeleteByNonAuthor =>
          /\ res.status = 403
          /\ invoked = <<"postByID", "requireSignin", "isPoster">>
          /\ posts = before

C6_Witness == DeleteByNonAuthor /\ res.status = 403 /\ req.id \in PostIds(posts)

\* C7: on every route with a :userId or :postId segment, an id that matches no
\* stored record ends the request with NotFound in the parameter middleware;
\* no handler of the route runs.
C7_UnknownIdEndsInParam ==
    (RouteParam(req.route) # "none" /\ ~IdResolved) =>
        /\ res.status = 404 /\ res.kind = "error"
        /\ invoked = IF RouteParam(req.route) = "userId"
                      THEN <<"userByID">> ELSE <<"postByID">>
        /\ posts = before

C7_Witness ==
    /\ req.route = "delete" /\ ~IdResolved /\ req.cred # NoCred
    /\ res.status = 404 /\ before # <<>>

\* C8 as stated: on the four protected routes a request without a valid
\* credential gets 401 and the controller operation never runs.
C8_Original ==
    (req.route \in Protected /\ req.cred = NoCred) =>
        /\ res.status = 401
        /\ ~Reached(Controller(req.route)) /\ ~Reached("isPoster")

\* C8 amended: on the four protected routes a request without a valid
\* credential never reaches the controller operation; it gets 401 when its
\* path id resolves, and the parameter middleware's NotFound when it does
\* not.  The photo route is the only one of the table bound without
\* requireSignin, and serves a request that carries no credential.
C8_NoCredentialNoController ==
    /\ (req.route \in Protected /\ req.cred = NoCred) =>
          /\ ~Reached(Controller(req.route)) /\ ~Reached("isPoster")
          /\ res.status = IF IdResolved THEN 401 ELSE 404
          /\ posts = before
    /\ \A route \in PostRoutes :
          ("requireSignin" \in Range(RouteChain(route))) <=> (route # "photo")
    /\ (req.route = "photo" /\ IdResolved) => Reached("photo")

C8_Witness ==
    /\ req.route = "new" /\ req.cred = NoCred /\ IdResolved
    /\ res.status = 401 /\ ~req.parseErr

\* C9: whatever likes and unlikes were requested, a user's id is in a post's
\* likes at most once (a like repeated by the same user adds nothing), an
\* unlike leaves none, and the likes array handed back to the client is as
\* long as the stored one.
LikeAnswered == called \in {"like", "unlike"} /\ res.kind = "doc"
C10_NoUpdateAfterUnmount ==
    [][/\ nf.phase = "unmounted" => nf'.posts = nf.posts
       /\ pf.phase = "unmounted" => pf'.values = pf.values]_vars

C10_Witness ==
    /\ nf.phase = "unmounted" /\ nf.fetch.state = "rejected"
    /\ pf.phase = "unmounted" /\ Len(pf.fetches) = 2
    /\ pf.fetches[1].fetch.state = "settled" /\ pf.values.user # NoUser
    /\ pf.fetches[2].fetch.state = "rejected"

\* C11: when a fetch of the post API client fails, the API function resolves to
\* undefined, and the response handler of the calling view (Newsfeed,
\* deletePost, clickLike) then finishes without raising and leaves the view's
\* state as it was.
FailureHandlers == {"listNewsFeed.then", "deletePost.then", "clickLike.then"}
C11_FailureIsQuiet ==
    (ev.handler \in FailureHandlers /\ ev.data = Undefined) =>
        /\ ~ev.raised
        /\ nf.posts = ev.shown
        /\ pv.values = ev.was

\* C12: a create request with a photo file whose upload succeeds makes one
\* upload; while the upload is awaited the document is not stored; the
\* document that goes on to the save carries the URL the media store
\* returned, and so do the post it stores and the post it answers with.
CreateWithPhoto ==
    req.route = "new" /\ Reached("create") /\ ~req.parseErr /\ req.hasFile
Saved == Len(posts) = Len(before) + 1 /\ Front(posts) = before
C12_PhotoSetBeforeSave ==
    /\ \A i \in 1..Len(pending) :
          /\ pending[i].awaits = "upload" =>
                /\ pending[i].doc._id \notin PostIds(posts)
                /\ pending[i].uploadCalls = 1
          /\ (pending[i].awaits = "save" /\ pending[i].r.hasFile) =>
                /\ pending[i].doc._id \notin PostIds(posts)
                /\ pending[i].doc.photo = UploadedUrl
    /\ (CreateWithPhoto /\ req.uploadOk /\ stage = "none") =>
          /\ uploadCalls = 1
          /\ (res.kind = "doc") <=> Saved
          /\ Saved => /\ posts[Len(posts)].photo = UploadedUrl
                      /\ res.docs[1].photo = UploadedUrl
                      /\ res.docs[1]._id = posts[Len(posts)]._id
          /\ ~Saved => posts = before /\ res.status = 400

C12_Witness ==
    /\ CreateWithPhoto /\ req.uploadOk /\ stage = "none" /\ res.kind = "doc"
    /\ before # <<>> /\ posts[Len(posts)].photo = UploadedUrl
    /\ posts[Len(posts)].created < before[Len(before)].created

\* C13: a create request with a photo file whose upload fails is not aborted:
\* its callback goes on, the post is saved without a photo, and the request is
\* answered.
C13_UploadFailureStillSaves ==
    (CreateWithPhoto /\ ~req.uploadOk) =>
        /\ stage # "never"
        /\ stage = "none" =>
              /\ res.status # 0
              /\ (req.text # "" /\ req.fieldPostedBy # NoUser) =>
                    /\ Saved
                    /\ posts[Len(posts)].photo = NoPhoto
                    /\ res.kind = "doc"

\* C14: on a Newsfeed that is on the page, addPost(p) sets the posts list to
\* p followed by the posts the list held when it was called, in their order;
\* removePost(p), for p in the list, sets it to that list with exactly the one
\* entry taken out; neither issues a fetch or another API call.
RemovedOne(old, new, x) == \E i \in 1..Len(old) : old[i] = x /\ new = Without(old, i)
NoFetchIssued ==
    /\ nf'.fetch \in {nf.fetch, Abort(nf.fetch)}
    /\ Len(calls') <= Len(calls)
C14_AddRemoveFrame ==
    [][/\ (NfAddPost /\ nf.phase = "mounted") =>
             /\ nf'.posts = <<ev'.arg>> \o nf.posts
             /\ NoFetchIssued
       /\ (NfRemovePost /\ ev'.arg \in Range(nf.posts)) =>
             /\ RemovedOne(nf.posts, nf'.posts, ev'.arg)
             /\ NoFetchIssued]_vars

\* On the Newsfeed as the post controller serves it, no Post of the list shows
\* its delete control, no remove call is in flight and deletePost has not
\* run: postedBy is a bare id, whose _id is undefined.
DeleteNeverOffered ==
    /\ \A i \in 1..Len(nf.posts) : ~DeleteControlShown(PostedBy(nf, nf.posts[i]))
    /\ \A i \in 1..Len(calls) : calls[i].api # "remove"
    /\ ev.handler \notin {"deletePost", "deletePost.then"}

\* C16: the like state of a Post agrees with the likes array the view received
\* last (with the post it renders, then with each answer without an error):
\* the flag is set exactly when the signed-in user's id is in that array, the
\* count is its length; an answer with an error changes neither.
C16_LikeStateAgrees ==
    /\ pv.phase # "crashed"
    /\ pv.phase = "mounted" =>
          /\ pv.values.like = (jwt \in Range(pv.lastLikes))
          /\ pv.values.likes = Len(pv.lastLikes)
    /\ (ev.handler = "clickLike.then" /\ ev.data.kind = "error") => pv.values = ev.was

\* The part of C16 about the answers alone: every answer without an error
\* leaves the flag set exactly when the user's id is in the returned array and
\* the count at its length, whichever clicks and answers came before.
LikeAnswersAgree ==
    /\ (ev.handler = "clickLike.then" /\ ev.data.kind = "post") =>
          /\ pv.values.like = (jwt \in Range(ev.data.likes))
          /\ pv.values.likes = Len(ev.data.likes)
    /\ (ev.handler = "clickLike.then" /\ ev.data.kind # "post") => pv.values = ev.was

\* C17: a key-down of the Enter key on a non-empty comment field calls the
\* comment API exactly once, with the post id and the typed text; any other
\* key, or an empty field, sends nothing.
IsEnter(code) == code \in {"Enter", "NumpadEnter"}
C17_EnterSendsOnce ==
    ev.handler = "addComment" =>
        /\ (IsEnter(ev.key) /\ ev.text # "") =>
              /\ ev.sent = 1
              /\ calls # <<>>
              /\ calls[Len(calls)].api = "comment"
              /\ calls[Len(calls)].post = ev.arg
              /\ calls[Len(calls)].text = ev.text
        /\ (~IsEnter(ev.key) \/ ev.text = "") => ev.sent = 0

\* C18: a click on the follow button changes no state of Profile; an answer
\* without an error replaces user with the returned user and flips following;
\* an answer with an error leaves user and following as they were; after the
\* read, following says whether the signed-in user is among the fetched
\* user's followers.
C18_FollowUpdates ==
    /\ ev.handler = "clickFollowButton" => pf.values = ev.was
    /\ (ev.handler = "clickFollowButton.then" /\ ev.data.kind = "user") =>
          /\ pf.values.user = ev.data.id
          /\ pf.values.followers = ev.data.followers
          /\ pf.values.following = ~ev.was.following
    /\ (ev.handler = "clickFollowButton.then" /\ ev.data.kind = "error") =>
          /\ pf.values.user = ev.was.user
          /\ pf.values.followers = ev.was.followers
          /\ pf.values.following = ev.was.following
    /\ (ev.handler = "read.then" /\ ev.data.kind = "user") =>
          pf.values.following = (jwt \in Range(ev.data.followers))

\* C19: a feed request changes no stored user's following list and no stored
\* post: the requesting user's own id, pushed onto the list the query uses,
\* does not reach the stored record.
C19_FeedReadOnly ==
    [][req'.route = "feed" => (following' = following /\ posts' = posts)]_vars

C19_Witness ==
    /\ req.route = "feed" /\ res.kind = "list" /\ posts # <<>>
    /\ req.id \notin Range(following[req.id])
    /\ \E i \in 1..Len(res.docs) : res.docs[i].postedBy._id = req.id

C21_RemoveAbsentKeepsList ==
    (ev.handler = "removePost" /\ ev.arg \notin Range(ev.closure)) =>
        nf.posts = ev.closure

====
